---- MODULE Spec2Model ----
(***************************************************************************)
(* A model of scripts/run_etl.py, the ETL script of the SEO audit          *)
(* pipeline: one run of main() walks <export_root>/<date>/<domain>/,       *)
(* resolves the site and the crawl of each domain directory, loads the     *)
(* rows of its *internal_all*.csv into pages, stamps the crawl, logs and   *)
(* archives, all inside one psycopg2 connection that __exit__ commits or   *)
(* rolls back.                                                             *)
(*                                                                         *)
(* Conventions.  Python's None is the integer None (-1): every integer the *)
(* script stores is an identifier >= 1 or a digit string's value >= 0.     *)
(* A str that the script inspects character by character (a numeric CSV    *)
(* cell, a directory name) is a sequence of one-character tokens; "sup2"   *)
(* stands for U+00B2 SUPERSCRIPT TWO and "ar3" for U+0663 ARABIC-INDIC     *)
(* DIGIT THREE.  An exception is a result record with raised = TRUE.       *)
(***************************************************************************)
EXTENDS Integers, Sequences, FiniteSets, TLC

VARIABLES
    exports,      \* the domain directories under the export root
    archive,      \* the domain directories under exports_archive
    committed,    \* the database as a fresh connection reads it
    db,           \* the database as the open transaction sees it
    txAborted,    \* the open transaction is in PostgreSQL's failed state
    conn,         \* "none" | "open" | "closed" | "leaked"
    nextSiteId,   \* next value of the sites.site_id sequence
    nextCrawlId,  \* next value of the crawls.crawl_id sequence
    pc,           \* "idle" | "walk" | "done": where main() is
    config,       \* the configuration file of the installation
    dateQueue,    \* sorted(date_dirs) still to be processed
    curDate,      \* the date directory being processed
    domQueue,     \* domain_dirs of curDate still to be processed
    runs,         \* number of runs of main() started
    faults,       \* number of failures injected so far
    visits,       \* per domain directory of this run: what the loop body did
    session,      \* what __enter__/__exit__ did in this run
    exitCode,     \* exit status of the last run, None while none has ended
    coerceIn,     \* a CSV row given to the coercion (SpecCoerce)
    coerceOut     \* the page tuple built from it, or the exception

vars == << exports, archive, committed, db, txAborted, conn, nextSiteId,
           nextCrawlId, pc, config, dateQueue, curDate, domQueue,
           runs, faults, visits, session, exitCode, coerceIn, coerceOut >>

----------------------------------------------------------------------------
(* Bounds of the model *)

\* runs of main() in one behaviour
MaxRuns == 2
\* failures injected in one behaviour
MaxFaults == 1
\* domain directories in the export tree
MaxDirs == 2
\* characters of a numeric cell drawn for the coercion
MaxLen == 3

None == -1

----------------------------------------------------------------------------
(* str.isdigit(), int() and the numeric coercion of process_internal_all_csv *)

AsciiDigits == {"0", "1", "2", "3", "4", "5", "6", "7", "8", "9"}

\* str.isdecimal(): the characters int() accepts as digits (Unicode Nd)
IsDecimalChar(c) == c \in AsciiDigits \cup {"ar3"}

\* str.isdigit(): the decimal characters and the other digit characters
\* (superscripts, circled digits), which int() rejects
IsDigitChar(c) == IsDecimalChar(c) \/ c = "sup2"

DigitValue(c) ==
    CASE c = "0" -> 0 [] c = "1" -> 1 [] c = "2" -> 2 [] c = "3" -> 3
      [] c = "4" -> 4 [] c = "5" -> 5 [] c = "6" -> 6 [] c = "7" -> 7
      [] c = "8" -> 8 [] c = "9" -> 9 [] c = "ar3" -> 3

\* s.isdigit(): false for the empty string
isdigit(s) == Len(s) > 0 /\ \A i \in 1..Len(s) : IsDigitChar(s[i])

RECURSIVE IntValue(_)
IntValue(s) ==
    IF s = << >> THEN 0
    ELSE 10 * IntValue(SubSeq(s, 1, Len(s) - 1)) + DigitValue(s[Len(s)])

\* int(s) for a non-empty s: ValueError unless every character is decimal
int(s) ==
    IF \A i \in 1..Len(s) : IsDecimalChar(s[i])
    THEN [raised |-> FALSE, val |-> IntValue(s)]
    ELSE [raised |-> TRUE, val |-> None]

\* A cell of a csv.DictReader row: a str, or None (restval) where the row
\* has fewer fields than the header.
Str(s) == [none |-> FALSE, s |-> s]
NoneCell == [none |-> TRUE, s |-> << >>]

\* row.get(col, default)
Get(row, col, default) == IF col \in DOMAIN row THEN row[col] ELSE default

NumericCols ==
    { "Status Code", "Title 1 Length", "Meta Description 1 Length",
      "H1-1 length", "Word Count", "Response Time", "Size (bytes)" }

TextCols ==
    { "Address", "Indexability", "Indexability Status", "Title 1",
      "Meta Description 1", "H1-1", "Canonical Link Element 1",
      "robots.txt", "X-Robots-Tag 1" }

\* int(row.get(col, 0)) if row.get(col, '').isdigit() else None
\* None.isdigit() is an AttributeError, int() of a non-decimal digit a
\* ValueError.
Coerce(row, col) ==
    LET cell == Get(row, col, Str(<< >>))
    IN  IF cell.none THEN [raised |-> TRUE, val |-> None]
        ELSE IF isdigit(cell.s) THEN int(Get(row, col, Str(<<"0">>)).s)
        ELSE [raised |-> FALSE, val |-> None]

\* row.get(col, '') of a text column
Text(row, col) == Get(row, col, Str("")).s

\* The page_data tuple of one row, or the exception its construction raises
page_data(crawl_id, row) ==
    IF \E col \in NumericCols : Coerce(row, col).raised
    THEN [raised |-> TRUE, page |-> << >>]
    ELSE [raised |-> FALSE, page |->
           [ crawl_id                |-> crawl_id,
             url                     |-> Text(row, "Address"),
             status_code             |-> Coerce(row, "Status Code").val,
             indexability            |-> Text(row, "Indexability"),
             indexability_status     |-> Text(row, "Indexability Status"),
             title                   |-> Text(row, "Title 1"),
             title_length            |-> Coerce(row, "Title 1 Length").val,
             meta_description        |-> Text(row, "Meta Description 1"),
             meta_description_length |->
                 Coerce(row, "Meta Description 1 Length").val,
             h1                      |-> Text(row, "H1-1"),
             h1_count                |-> Coerce(row, "H1-1 length").val,
             word_count              |-> Coerce(row, "Word Count").val,
             response_time_ms        |-> Coerce(row, "Response Time").val,
             size_bytes              |-> Coerce(row, "Size (bytes)").val,
             canonical_link          |-> Text(row, "Canonical Link Element 1"),
             robots_txt_status       |-> Text(row, "robots.txt"),
             x_robots_tag            |-> Text(row, "X-Robots-Tag 1") ]]

\* The page field a numeric column is stored in
FieldOf(col) ==
    CASE col = "Status Code" -> "status_code"
      [] col = "Title 1 Length" -> "title_length"
      [] col = "Meta Description 1 Length" -> "meta_description_length"
      [] col = "H1-1 length" -> "h1_count"
      [] col = "Word Count" -> "word_count"
      [] col = "Response Time" -> "response_time_ms"
      [] col = "Size (bytes)" -> "size_bytes"

----------------------------------------------------------------------------
(* The export tree *)

\* Directory names, character by character
N_2024_01_15 == <<"2", "0", "2", "4", "_", "0", "1", "_", "1", "5">>
N_2024_01_16 == <<"2", "0", "2", "4", "_", "0", "1", "_", "1", "6">>
N_2024_01_17 == <<"2", "0", "2", "4", "_", "0", "1", "_", "1", "7">>
N_2024h01h15 == <<"2", "0", "2", "4", "-", "0", "1", "-", "1", "5">>
N_abcdefghij == <<"a", "b", "c", "d", "e", "f", "g", "h", "i", "j">>
N_notes      == <<"n", "o", "t", "e", "s">>

\* export_dir.iterdir(): the entries of the export root.  The run never
\* adds or removes one (the archive moves domain directories only).
RootEntries ==
    { [name |-> N_2024_01_15, is_dir |-> TRUE],
      [name |-> N_2024_01_16, is_dir |-> TRUE],
      [name |-> N_2024h01h15, is_dir |-> TRUE],
      [name |-> N_abcdefghij, is_dir |-> TRUE],
      [name |-> N_notes,      is_dir |-> TRUE],
      [name |-> N_2024_01_17, is_dir |-> FALSE] }

DomainNames == {"a.com", "b.com"}

\* ord(c) of the characters of the names
Ord(c) ==
    CASE c = "-" -> 45 [] c = "_" -> 95
      [] c \in AsciiDigits -> 48 + DigitValue(c)
      [] c = "a" -> 97 [] c = "b" -> 98 [] c = "c" -> 99 [] c = "d" -> 100
      [] c = "e" -> 101 [] c = "f" -> 102 [] c = "g" -> 103
      [] c = "h" -> 104 [] c = "i" -> 105 [] c = "j" -> 106
      [] c = "n" -> 110 [] c = "o" -> 111 [] c = "s" -> 115
      [] c = "t" -> 116

\* a < b for two str (two Path of one parent)
RECURSIVE StrLess(_, _)
StrLess(a, b) ==
    IF b = << >> THEN FALSE
    ELSE IF a = << >> THEN TRUE
    ELSE IF Ord(Head(a)) # Ord(Head(b)) THEN Ord(Head(a)) < Ord(Head(b))
    ELSE StrLess(Tail(a), Tail(b))

\* The listing in descending order
RECURSIVE sorted_Descending(_)
sorted_Descending(S) ==
    IF S = {} THEN << >>
    ELSE LET m == CHOOSE x \in S : \A y \in S \ {x} : StrLess(y, x)
         IN  <<m>> \o sorted_Descending(S \ {m})

\* sorted(S)
RECURSIVE sorted(_)
sorted(S) ==
    IF S = {} THEN << >>
    ELSE LET m == CHOOSE x \in S : \A y \in S \ {x} : StrLess(x, y)
         IN  <<m>> \o sorted(S \ {m})

\* name.replace('_', '-')
replace(name) == [i \in 1..Len(name) |-> IF name[i] = "_" THEN "-" ELSE name[i]]

\* The listing without the test of the length of the name
date_dirs_AnyLength == { e.name : e \in { x \in RootEntries : x.is_dir } }

\* [d for d in export_dir.iterdir() if d.is_dir() and len(d.name) == 10]
date_dirs == { e.name : e \in { x \in RootEntries : x.is_dir /\ Len(x.name) = 10 } }

\* The files matching *internal_all*.csv, by identifier; NoCsv: no match
NoCsv == 0
U1 == "http://x/1"
U2 == "http://x/2"
U3 == "http://x/3"

CsvRow(url, status, words) ==
    [c \in {"Address", "Status Code", "Title 1", "Word Count"} |->
        CASE c = "Address" -> Str(url)
          [] c = "Status Code" -> Str(status)
          [] c = "Title 1" -> Str("t")
          [] c = "Word Count" -> Str(words)]

\* rows of one round-trip of execute_batch
page_size == 1000

\* A file of more rows than one round-trip of execute_batch takes
BigCsv == 5

\* csv.DictReader(f): the data rows of each file
CsvRows(f) ==
    CASE f = 1 -> << CsvRow(U1, <<"4", "2">>, <<"7">>),
                     CsvRow(U2, << >>, <<"3", ".", "5">>) >>
      [] f = 2 -> << CsvRow(U1, <<"7">>, <<"-", "3">>),
                     CsvRow(U1, <<"9">>, <<"1">>) >>
      [] f = 3 -> << CsvRow(U3, <<"2", "0", "0">>, <<"1">>),
                     CsvRow(U2, <<"sup2">>, <<"1">>) >>
      [] f = 4 -> << >>
      [] f = BigCsv ->
             [k \in 1..(page_size + 1) |->
                 IF k <= page_size THEN CsvRow(U1, <<"2", "0", "0">>, <<"1">>)
                 ELSE CsvRow(U2, <<"2", "0", "0">>, <<"1">>)]

CsvFiles == 1..4

\* A domain directory <export_root>/<date>/<domain> with its matching file
DomainDirs ==
    [ date : {N_2024_01_15}, domain : DomainNames,
      csv : {NoCsv} \cup CsvFiles ]
    \cup [ date : {N_2024_01_16}, domain : {"a.com"}, csv : {1, 2} ]
    \cup [ date : {N_2024h01h15, N_abcdefghij, N_notes}, domain : {"a.com"},
           csv : {2} ]

\* The domain directory that holds the file of more than page_size rows
BigDir == [date |-> N_2024_01_16, domain |-> "b.com", csv |-> BigCsv]

\* The export trees: at most MaxDirs domain directories, or BigDir alone
Trees ==
    { t \in { { f[i] : i \in 1..k } :
                 k \in 0..MaxDirs, f \in [1..MaxDirs -> DomainDirs] } :
        \A x, y \in t : (x.date = y.date /\ x.domain = y.domain) => x = y }
    \cup { {BigDir} }

----------------------------------------------------------------------------
(* The database session: DatabaseConnection.execute / execute_many *)

EmptyDb == [sites |-> {}, crawls |-> {}, pages |-> {}, etl_logs |-> << >>]

\* The outcomes of one statement: it succeeds, it raises in the client
\* before the server ran it (adaptation of a parameter), or the server
\* rejects it, which leaves the transaction in the failed state.
Outcomes == {"ok", "client", "server"}

\* self.cursor.execute(query, params) in the try/except of execute, which
\* re-raises: in a failed transaction every statement raises
\* (InFailedSqlTransaction); nothing here rolls back to a savepoint.
execute(S, outcome) ==
    IF S.aborted THEN [raised |-> TRUE, hit |-> FALSE, S |-> S]
    ELSE IF outcome = "ok" THEN [raised |-> FALSE, hit |-> FALSE, S |-> S]
    ELSE [raised |-> TRUE, hit |-> TRUE,
          S |-> [S EXCEPT !.aborted = (outcome = "server")]]

\* The failure injected into one pass of the loop body: the step it
\* strikes and the outcome of that step.  chunk: the round of execute_batch.
NoFault == [at |-> "none", outcome |-> "ok", chunk |-> 0]
OutcomeAt(fault, point) == IF fault.at = point THEN fault.outcome ELSE "ok"

----------------------------------------------------------------------------
(* Site and crawl management *)

\* get_or_create_site without the lookup: it inserts in every call
get_or_create_site_NoLookup(S, domain, label, fault) ==
    LET ins == execute(S, OutcomeAt(fault, "site_insert"))
        row == [site_id |-> S.nextSiteId, domain |-> domain,
                label |-> IF label = "" THEN domain ELSE label,
                status |-> "active"]
    IN  IF ins.raised
        THEN [raised |-> TRUE, hit |-> ins.hit, S |-> ins.S, id |-> None,
              inserted |-> FALSE]
        ELSE [raised |-> FALSE, hit |-> FALSE,
              S |-> [S EXCEPT !.db.sites = @ \cup {row},
                              !.nextSiteId = @ + 1],
              id |-> S.nextSiteId, inserted |-> TRUE]

get_or_create_site(S, domain, label, fault) ==
    LET sel == execute(S, OutcomeAt(fault, "site_select"))
        found == { r \in S.db.sites : r.domain = domain }
        ins == execute(S, OutcomeAt(fault, "site_insert"))
        row == [site_id |-> S.nextSiteId, domain |-> domain,
                label |-> IF label = "" THEN domain ELSE label,
                status |-> "active"]
    IN  IF sel.raised
        THEN [raised |-> TRUE, hit |-> sel.hit, S |-> sel.S, id |-> None,
              inserted |-> FALSE]
        ELSE IF found # {}
        THEN [raised |-> FALSE, hit |-> FALSE, S |-> S,
              id |-> (CHOOSE r \in found : TRUE).site_id, inserted |-> FALSE]
        ELSE IF ins.raised
        THEN [raised |-> TRUE, hit |-> ins.hit, S |-> ins.S, id |-> None,
              inserted |-> FALSE]
        ELSE [raised |-> FALSE, hit |-> FALSE,
              S |-> [S EXCEPT !.db.sites = @ \cup {row},
                              !.nextSiteId = @ + 1],
              id |-> S.nextSiteId, inserted |-> TRUE]

\* get_or_create_crawl without the lookup: it inserts in every call
get_or_create_crawl_NoLookup(S, site_id, crawl_date, t, fault) ==
    LET ins == execute(S, OutcomeAt(fault, "crawl_insert"))
        row == [crawl_id |-> S.nextCrawlId, site_id |-> site_id,
                crawl_date |-> crawl_date, crawl_started_at |-> t,
                crawl_status |-> "completed", total_pages |-> None,
                crawl_completed_at |-> None]
    IN  IF ins.raised
        THEN [raised |-> TRUE, hit |-> ins.hit, S |-> ins.S, id |-> None,
              inserted |-> FALSE]
        ELSE [raised |-> FALSE, hit |-> FALSE,
              S |-> [S EXCEPT !.db.crawls = @ \cup {row},
                              !.nextCrawlId = @ + 1],
              id |-> S.nextCrawlId, inserted |-> TRUE]

get_or_create_crawl(S, site_id, crawl_date, t, fault) ==
    LET sel == execute(S, OutcomeAt(fault, "crawl_select"))
        found == { r \in S.db.crawls :
                     r.site_id = site_id /\ r.crawl_date = crawl_date }
        ins == execute(S, OutcomeAt(fault, "crawl_insert"))
        row == [crawl_id |-> S.nextCrawlId, site_id |-> site_id,
                crawl_date |-> crawl_date, crawl_started_at |-> t,
                crawl_status |-> "completed", total_pages |-> None,
                crawl_completed_at |-> None]
    IN  IF sel.raised
        THEN [raised |-> TRUE, hit |-> sel.hit, S |-> sel.S, id |-> None,
              inserted |-> FALSE]
        ELSE IF found # {}
        THEN [raised |-> FALSE, hit |-> FALSE, S |-> S,
              id |-> (CHOOSE r \in found : TRUE).crawl_id, inserted |-> FALSE]
        ELSE IF ins.raised
        THEN [raised |-> TRUE, hit |-> ins.hit, S |-> ins.S, id |-> None,
              inserted |-> FALSE]
        ELSE [raised |-> FALSE, hit |-> FALSE,
              S |-> [S EXCEPT !.db.crawls = @ \cup {row},
                              !.nextCrawlId = @ + 1],
              id |-> S.nextCrawlId, inserted |-> TRUE]

----------------------------------------------------------------------------
(* CSV processing *)

\* The uniqueness constraint of pages that ON CONFLICT refers to
ConflictKey(p) == <<p.crawl_id, p.url>>

\* The insert as an upsert (ON CONFLICT ... DO UPDATE): the new row
\* replaces the row of its key
InsertPage_Upsert(pages, p) ==
    { q \in pages : ConflictKey(q) # ConflictKey(p) } \cup {p}

\* INSERT INTO pages ... ON CONFLICT DO NOTHING of one row
InsertPage(pages, p) ==
    IF \E q \in pages : ConflictKey(q) = ConflictKey(p)
    THEN pages
    ELSE pages \cup {p}

\* The rows of one round, inserted in their order: the first half into
\* pages, then the second half into the result (pages is evaluated first)
RECURSIVE InsertPages(_, _)
InsertPages(pages, data) ==
    IF Cardinality(pages) >= 0 /\ Len(data) > 1
    THEN InsertPages(InsertPages(pages, SubSeq(data, 1, Len(data) \div 2)),
                     SubSeq(data, Len(data) \div 2 + 1, Len(data)))
    ELSE IF Len(data) = 1 THEN InsertPage(pages, data[1])
    ELSE pages

Min(a, b) == IF a < b THEN a ELSE b

\* execute_batch(self.cursor, query, data, page_size=1000) from round k on:
\* each round is one statement; a round that raises ends the batch and
\* leaves the rounds before it in the transaction.
RECURSIVE execute_batch(_, _, _, _)
execute_batch(S, data, k, fault) ==
    IF (k - 1) * page_size >= Len(data)
    THEN [raised |-> FALSE, hit |-> FALSE, S |-> S]
    ELSE LET page == SubSeq(data, (k - 1) * page_size + 1,
                            Min(k * page_size, Len(data)))
             ex == execute(S, IF fault.at = "batch" /\ fault.chunk = k
                              THEN fault.outcome ELSE "ok")
         IN  IF ex.raised
             THEN [raised |-> TRUE, hit |-> ex.hit, S |-> ex.S]
             ELSE execute_batch(
                      [S EXCEPT !.db.pages = InsertPages(@, page)],
                      data, k + 1, fault)

\* DatabaseConnection.execute_many
execute_many(S, data, fault) == execute_batch(S, data, 1, fault)

\* The loop over the reader: the page tuples of the rows before the first
\* row that raises, and whether one raised
ReadRows(crawl_id, rows) ==
    LET bad == { k \in 1..Len(rows) : page_data(crawl_id, rows[k]).raised }
        n == IF bad = {} THEN Len(rows)
             ELSE (CHOOSE k \in bad : \A j \in bad : k <= j) - 1
    IN  [raised |-> bad # {},
         data |-> [k \in 1..n |-> page_data(crawl_id, rows[k]).page]]

\* process_internal_all_csv returning the number of rows the insert
\* stored (the cursor's row count) instead of len(pages_data)
process_internal_all_csv_RowCount(S, crawl_id, csv, fault) ==
    LET rd == ReadRows(crawl_id, CsvRows(csv))
        pages_data == rd.data
        ex == execute_many(S, pages_data, fault)
    IN  IF fault.at = "read"
        THEN [raised |-> TRUE, hit |-> TRUE, S |-> S, count |-> None,
              parsed |-> 0, submitted |-> FALSE]
        ELSE IF rd.raised
        THEN [raised |-> TRUE, hit |-> FALSE, S |-> S, count |-> None,
              parsed |-> Len(pages_data), submitted |-> FALSE]
        ELSE IF pages_data = << >>
        THEN [raised |-> FALSE, hit |-> FALSE, S |-> S, count |-> 0,
              parsed |-> 0, submitted |-> FALSE]
        ELSE IF ex.raised
        THEN [raised |-> TRUE, hit |-> ex.hit, S |-> ex.S, count |-> None,
              parsed |-> Len(pages_data), submitted |-> TRUE]
        ELSE [raised |-> FALSE, hit |-> FALSE, S |-> ex.S,
              count |-> Cardinality(ex.S.db.pages) - Cardinality(S.db.pages),
              parsed |-> Len(pages_data), submitted |-> TRUE]

process_internal_all_csv(S, crawl_id, csv, fault) ==
    LET rd == ReadRows(crawl_id, CsvRows(csv))
        pages_data == rd.data
        ex == execute_many(S, pages_data, fault)
    IN  IF fault.at = "read"
        THEN [raised |-> TRUE, hit |-> TRUE, S |-> S, count |-> None,
              parsed |-> 0, submitted |-> FALSE]
        ELSE IF rd.raised
        THEN [raised |-> TRUE, hit |-> FALSE, S |-> S, count |-> None,
              parsed |-> Len(pages_data), submitted |-> FALSE]
        ELSE IF pages_data = << >>
        THEN [raised |-> FALSE, hit |-> FALSE, S |-> S, count |-> 0,
              parsed |-> 0, submitted |-> FALSE]
        ELSE IF ex.raised
        THEN [raised |-> TRUE, hit |-> ex.hit, S |-> ex.S, count |-> None,
              parsed |-> Len(pages_data), submitted |-> TRUE]
        ELSE [raised |-> FALSE, hit |-> FALSE, S |-> ex.S,
              count |-> Len(pages_data), parsed |-> Len(pages_data),
              submitted |-> TRUE]

update_crawl_summary(S, crawl_id, total_pages, t, fault) ==
    LET ex == execute(S, OutcomeAt(fault, "update"))
    IN  IF ex.raised THEN [raised |-> TRUE, hit |-> ex.hit, S |-> ex.S]
        ELSE [raised |-> FALSE, hit |-> FALSE,
              S |-> [S EXCEPT !.db.crawls =
                  { IF r.crawl_id = crawl_id
                    THEN [r EXCEPT !.total_pages = total_pages,
                                   !.crawl_completed_at = t]
                    ELSE r : r \in @ }]]

----------------------------------------------------------------------------
(* ETL logging and the archive *)

\* log_etl_event: the INSERT in a try/except that swallows the exception
log_etl_event(S, crawl_id, site_id, level, message, file_path, outcome) ==
    LET ex == execute(S, outcome)
        row == [crawl_id |-> crawl_id, site_id |-> site_id,
                log_level |-> level, message |-> message,
                file_path |-> file_path]
    IN  IF ex.raised THEN [hit |-> ex.hit, S |-> ex.S, logged |-> FALSE]
        ELSE [hit |-> FALSE, logged |-> TRUE,
              S |-> [S EXCEPT !.db.etl_logs = Append(@, row)]]

\* archive_processed_files: shutil.move of the domain directory to
\* <archive_base>/<date>/<domain>, in a try/except that swallows the
\* exception.  F: the two trees.
archive_processed_files(F, dir, fails) ==
    IF fails THEN F
    ELSE [exports |-> F.exports \ {dir}, archive |-> F.archive \cup {dir}]

----------------------------------------------------------------------------
(* process_export_directory: one pass of the loop over domain_dirs *)

B2N(b) == IF b THEN 1 ELSE 0

\* config.get('archive_processed_files', True)
ArchiveEnabled(cfg) == cfg.archive_processed_files \in {"true", "absent"}

\* What one pass did, as the run's record of it
NewVisit(dir) ==
    [ date |-> dir.date, domain |-> dir.domain, csv |-> dir.csv,
      crawl_date |-> replace(dir.date),
      site_id |-> None, site_inserted |-> FALSE,
      crawl_id |-> None, crawl_inserted |-> FALSE,
      parsed |-> None, submitted |-> FALSE, count |-> None, stored |-> 0,
      summary |-> FALSE, log_level |-> "none", logged |-> FALSE,
      archive |-> "none", outcome |-> "running" ]

Message(kind, domain, n) == [kind |-> kind, domain |-> domain, n |-> n]
FilePath(dir, csv) == [date |-> dir.date, domain |-> dir.domain, csv |-> csv]

\* except Exception as e: log the ERROR event, best effort
OnError(S, F, dir, v, hits, logOutcome) ==
    LET lg == log_etl_event(S, None, None, "ERROR",
                  Message("failed", dir.domain, None), FilePath(dir, NoCsv),
                  logOutcome)
    IN  [ S |-> lg.S, F |-> F, hits |-> hits + B2N(lg.hit),
          visit |-> [v EXCEPT !.outcome = "error", !.log_level = "ERROR",
                              !.logged = lg.logged] ]

\* The missing file treated as a failure of the domain
OnNoCsv_Raises(S, F, dir, v, logOutcome) ==
    OnError(S, F, dir, v, 0, logOutcome)

\* if not csv_files: log the WARNING event and continue
OnNoCsv(S, F, dir, v, logOutcome) ==
    LET lg == log_etl_event(S, v.crawl_id, v.site_id, "WARNING",
                  Message("no_csv", dir.domain, None), FilePath(dir, NoCsv),
                  logOutcome)
    IN  [ S |-> lg.S, F |-> F, hits |-> B2N(lg.hit),
          visit |-> [v EXCEPT !.outcome = "no_csv", !.log_level = "WARNING",
                              !.logged = lg.logged] ]

\* The success path that archives whatever the configuration says
OnLoaded_ArchiveAlways(S, F, dir, v, cfg, logOutcome, archFails) ==
    LET lg == log_etl_event(S, v.crawl_id, v.site_id, "INFO",
                  Message("success", dir.domain, v.count),
                  FilePath(dir, dir.csv), logOutcome)
    IN  [ S |-> lg.S,
          F |-> archive_processed_files(F, dir, archFails),
          hits |-> B2N(lg.hit) + B2N(archFails),
          visit |-> [v EXCEPT !.outcome = "ok", !.log_level = "INFO",
                              !.logged = lg.logged,
                              !.archive = IF archFails THEN "failed"
                                          ELSE "moved"] ]

\* After update_crawl_summary: log the INFO event, then archive if configured
OnLoaded(S, F, dir, v, cfg, logOutcome, archFails) ==
    LET lg == log_etl_event(S, v.crawl_id, v.site_id, "INFO",
                  Message("success", dir.domain, v.count),
                  FilePath(dir, dir.csv), logOutcome)
        arch == ArchiveEnabled(cfg)
    IN  [ S |-> lg.S,
          F |-> IF arch THEN archive_processed_files(F, dir, archFails)
                ELSE F,
          hits |-> B2N(lg.hit) + B2N(arch /\ archFails),
          visit |-> [v EXCEPT !.outcome = "ok", !.log_level = "INFO",
                              !.logged = lg.logged,
                              !.archive = IF ~arch THEN "none"
                                          ELSE IF archFails THEN "failed"
                                          ELSE "moved"] ]

\* The body of `for domain_dir in domain_dirs`, lines 296-335, read from
\* its end: each operator takes the result of the call before it.

\* update_crawl_summary has returned or raised (up)
AfterSummary(up, F, dir, v, cfg, logOutcome, archFails) ==
    IF up.raised THEN OnError(up.S, F, dir, v, B2N(up.hit), logOutcome)
    ELSE OnLoaded(up.S, F, dir, [v EXCEPT !.summary = TRUE], cfg, logOutcome,
                  archFails)

\* process_internal_all_csv has returned or raised (pr); before: the
\* number of pages rows before it
AfterCsv(pr, before, F, dir, v2, cfg, t, fault, logOutcome, archFails) ==
    LET v == [v2 EXCEPT !.parsed = pr.parsed, !.submitted = pr.submitted,
                        !.count = pr.count,
                        !.stored = Cardinality(pr.S.db.pages) - before]
    IN  IF pr.raised THEN OnError(pr.S, F, dir, v, B2N(pr.hit), logOutcome)
        ELSE AfterSummary(
                 update_crawl_summary(pr.S, v.crawl_id, pr.count, t, fault),
                 F, dir, v, cfg, logOutcome, archFails)

\* get_or_create_crawl has returned or raised (cr)
AfterCrawl(cr, F, dir, v1, cfg, t, fault, logOutcome, archFails) ==
    LET v == [v1 EXCEPT !.crawl_id = cr.id, !.crawl_inserted = cr.inserted]
    IN  IF cr.raised THEN OnError(cr.S, F, dir, v, B2N(cr.hit), logOutcome)
        ELSE IF dir.csv = NoCsv THEN OnNoCsv(cr.S, F, dir, v, logOutcome)
        ELSE AfterCsv(process_internal_all_csv(cr.S, cr.id, dir.csv, fault),
                      Cardinality(cr.S.db.pages), F, dir, v, cfg, t, fault,
                      logOutcome, archFails)

\* get_or_create_site has returned or raised (st)
AfterSite(st, F, dir, cfg, t, fault, logOutcome, archFails) ==
    LET v == [NewVisit(dir) EXCEPT !.site_id = st.id,
                                   !.site_inserted = st.inserted]
    IN  IF st.raised THEN OnError(st.S, F, dir, v, B2N(st.hit), logOutcome)
        ELSE AfterCrawl(
                 get_or_create_crawl(st.S, st.id, v.crawl_date, t, fault),
                 F, dir, v, cfg, t, fault, logOutcome, archFails)

loop_body(S, F, dir, cfg, t, fault, logOutcome, archFails) ==
    AfterSite(get_or_create_site(S, dir.domain, "", fault),
              F, dir, cfg, t, fault, logOutcome, archFails)

----------------------------------------------------------------------------
(* The transactional session: DatabaseConnection.__enter__ / __exit__ *)

\* pre: the precondition of main() that failed in this run ("ok": none)
NewSession == [pre |-> "none", connects |-> 0, commits |-> 0,
               rollbacks |-> 0, closes |-> 0]

\* __exit__ that commits whatever exc_type is
DatabaseConnection_exit_AlwaysCommits(X, exc, raises) ==
    [committed |-> IF X.aborted THEN X.committed ELSE X.db,
     session |-> [X.session EXCEPT !.commits = @ + 1, !.closes = @ + 1],
     conn |-> "closed", raised |-> FALSE]

\* __exit__(exc_type, ...): cursor.close(); commit() if exc_type is None
\* else rollback(); conn.close().  No try/finally: a step that raises ends
\* __exit__ there.  A COMMIT of a failed transaction is a rollback.
\* X: [committed, db, aborted, session]; raises: the step that raises.
DatabaseConnection_exit(X, exc, raises) ==
    IF raises = "cursor_close"
    THEN [committed |-> X.committed, session |-> X.session,
          conn |-> "leaked", raised |-> TRUE]
    ELSE IF exc
    THEN IF raises = "rollback"
         THEN [committed |-> X.committed,
               session |-> [X.session EXCEPT !.rollbacks = @ + 1],
               conn |-> "leaked", raised |-> TRUE]
         ELSE [committed |-> X.committed,
               session |-> [X.session EXCEPT !.rollbacks = @ + 1,
                                             !.closes = @ + 1],
               conn |-> "closed", raised |-> FALSE]
    ELSE IF raises = "commit"
    THEN [committed |-> X.committed,
          session |-> [X.session EXCEPT !.commits = @ + 1],
          conn |-> "leaked", raised |-> TRUE]
    ELSE [committed |-> IF X.aborted THEN X.committed ELSE X.db,
          session |-> [X.session EXCEPT !.commits = @ + 1, !.closes = @ + 1],
          conn |-> "closed", raised |-> FALSE]

----------------------------------------------------------------------------
(* main() *)

Configs ==
    [ base_export_path : {"exports", "missing"},
      archive_processed_files : {"true", "false", "absent"} ]

DbPoints == { "site_select", "site_insert", "crawl_select", "crawl_insert",
              "batch", "update" }

Faults ==
    {NoFault}
    \cup { [at |-> a, outcome |-> o, chunk |-> IF a = "batch" THEN 1 ELSE 0] :
             a \in DbPoints, o \in {"client", "server"} }
    \cup { [at |-> "batch", outcome |-> o, chunk |-> 2] :
             o \in {"client", "server"} }
    \cup { [at |-> "read", outcome |-> "client", chunk |-> 0] }

Session == [db |-> db, aborted |-> txAborted, nextSiteId |-> nextSiteId,
            nextCrawlId |-> nextCrawlId]

\* datetime.now(): a logical time, later in every later pass and run
now == runs * (MaxDirs + 1) + Len(visits)

\* The end of a run: __exit__ has run with the result x, the process exits
EndRun(x, code) ==
    /\ committed' = x.committed
    /\ db' = x.committed
    /\ txAborted' = FALSE
    /\ conn' = x.conn
    /\ session' = x.session
    /\ exitCode' = code
    /\ pc' = "idle"
    /\ dateQueue' = << >>
    /\ domQueue' = {}
    /\ curDate' = << >>

\* main() up to the first pass of the loop over the date directories:
\* load_config, get_db_credentials, __enter__, the check of the export
\* root, and the listing of line 282.  pre: the precondition that fails.
\* main() without the sys.exit(1) of get_db_credentials
main_preflight_NoCredentialCheck(pre, cfg) ==
    IF pre \in {"no_config", "no_connection"} THEN pre
    ELSE IF cfg.base_export_path = "missing" THEN "no_root"
    ELSE "walk"

\* Where main() goes before the walk.  pre: the precondition that fails
\* ("ok": none): load_config and get_db_credentials sys.exit(1) before the
\* connection, __enter__ sys.exit(1) when connect raises, and a missing
\* export root sys.exit(1) inside the with block.
main_preflight(pre, cfg) ==
    IF pre \in {"no_config", "no_credentials", "no_connection"} THEN pre
    ELSE IF cfg.base_export_path = "missing" THEN "no_root"
    ELSE "walk"

\* raises: the step of __exit__ that raises when the export root is
\* missing (the exception replaces SystemExit; the process exits 1)
Main_Start(pre, raises) ==
    /\ pc = "idle"
    /\ runs < MaxRuns
    /\ runs' = runs + 1
    /\ visits' = << >>
    /\ UNCHANGED << exports, archive, nextSiteId, nextCrawlId,
                    config, coerceIn, coerceOut >>
    /\ raises # "none" => main_preflight(pre, config) = "no_root"
    /\ faults + B2N(raises # "none") <= MaxFaults
    /\ faults' = faults + B2N(raises # "none")
    /\ IF main_preflight(pre, config)
            \in {"no_config", "no_credentials", "no_connection"}
       THEN \* sys.exit(1) before or inside __enter__: no connection
            /\ session' = [NewSession EXCEPT !.pre = pre]
            /\ conn' = "none"
            /\ exitCode' = 1
            /\ UNCHANGED << committed, db, txAborted, pc, dateQueue,
                            curDate, domQueue >>
       ELSE IF main_preflight(pre, config) = "no_root"
       THEN \* sys.exit(1) inside the with block: __exit__ sees SystemExit
            EndRun(DatabaseConnection_exit(
                     [committed |-> committed, db |-> db, aborted |-> FALSE,
                      session |-> [NewSession EXCEPT !.pre = pre,
                                                     !.connects = 1]],
                     TRUE, raises), 1)
       ELSE /\ session' = [NewSession EXCEPT !.pre = pre, !.connects = 1]
            /\ conn' = "open"
            /\ exitCode' = None
            /\ pc' = "walk"
            /\ dateQueue' = sorted(date_dirs)
            /\ curDate' = << >>
            /\ domQueue' = {}
            /\ UNCHANGED << committed, db, txAborted >>

\* The head of `for date_dir in sorted(date_dirs)`: the listing of the
\* domain directories, outside the try.  An OSError here escapes to
\* __exit__, which rolls back.
DateDir_List(listFails, raises) ==
    /\ pc = "walk"
    /\ domQueue = {}
    /\ dateQueue # << >>
    /\ UNCHANGED << exports, archive, nextSiteId, nextCrawlId, config, runs,
                    visits, coerceIn, coerceOut >>
    /\ IF listFails
       THEN /\ faults + 1 + B2N(raises # "none") <= MaxFaults
            /\ faults' = faults + 1 + B2N(raises # "none")
            /\ EndRun(DatabaseConnection_exit(
                        [committed |-> committed, db |-> db,
                         aborted |-> txAborted, session |-> session],
                        TRUE, raises), 1)
       ELSE /\ raises = "none"
            /\ curDate' = Head(dateQueue)
            /\ dateQueue' = Tail(dateQueue)
            /\ domQueue' = { d \in exports : d.date = Head(dateQueue) }
            /\ UNCHANGED << committed, db, txAborted, conn, session, exitCode,
                            pc, faults >>

\* The failures injected into one pass; each must strike (r.hits)
Injected(fault, logOutcome, archFails) ==
    B2N(fault.at # "none") + B2N(logOutcome # "ok") + B2N(archFails)

\* The state after a pass of the loop body with the result r
PassDone(r, injected) ==
    /\ r.hits = injected
    /\ db' = r.S.db
    /\ txAborted' = r.S.aborted
    /\ nextSiteId' = r.S.nextSiteId
    /\ nextCrawlId' = r.S.nextCrawlId
    /\ exports' = r.F.exports
    /\ archive' = r.F.archive
    /\ visits' = Append(visits, r.visit)

\* One pass of `for domain_dir in domain_dirs`, in listing order (any)
Domain_Process(dir, fault, logOutcome, archFails) ==
    /\ pc = "walk"
    /\ dir \in domQueue
    /\ faults + Injected(fault, logOutcome, archFails) <= MaxFaults
    /\ faults' = faults + Injected(fault, logOutcome, archFails)
    /\ PassDone(loop_body(Session, [exports |-> exports, archive |-> archive],
                          dir, config, now, fault, logOutcome, archFails),
                Injected(fault, logOutcome, archFails))
    /\ domQueue' = domQueue \ {dir}
    /\ UNCHANGED << committed, conn, pc, config, dateQueue, curDate, runs,
                    session, exitCode, coerceIn, coerceOut >>

\* The walk is over: __exit__ without an exception commits and closes
Main_Exit(raises) ==
    /\ pc = "walk"
    /\ domQueue = {}
    /\ dateQueue = << >>
    /\ faults + B2N(raises # "none") <= MaxFaults
    /\ faults' = faults + B2N(raises # "none")
    /\ LET x == DatabaseConnection_exit(
                    [committed |-> committed, db |-> db, aborted |-> txAborted,
                     session |-> session], FALSE, raises)
       IN  EndRun(x, IF x.raised THEN 1 ELSE 0)
    /\ UNCHANGED << exports, archive, nextSiteId, nextCrawlId, config, runs,
                    visits, coerceIn, coerceOut >>

NoRow == [c \in {} |-> NoneCell]
NotCoerced == [done |-> FALSE, raised |-> FALSE, page |-> << >>]

Init ==
    /\ exports \in Trees
    /\ archive = {}
    /\ committed = EmptyDb
    /\ db = EmptyDb
    /\ txAborted = FALSE
    /\ conn = "none"
    /\ nextSiteId = 1
    /\ nextCrawlId = 1
    /\ pc = "idle"
    /\ config \in Configs
    /\ dateQueue = << >>
    /\ curDate = << >>
    /\ domQueue = {}
    /\ runs = 0
    /\ faults = 0
    /\ visits = << >>
    /\ session = NewSession
    /\ exitCode = None
    /\ coerceIn = NoRow
    /\ coerceOut = NotCoerced

Next ==
    \/ \E pre \in {"ok", "no_config", "no_credentials", "no_connection"},
          raises \in {"none", "cursor_close", "rollback"} :
          Main_Start(pre, raises)
    \/ \E listFails \in BOOLEAN, raises \in {"none", "cursor_close", "rollback"} :
          DateDir_List(listFails, raises)
    \/ \E dir \in domQueue, fault \in Faults, logOutcome \in Outcomes,
          archFails \in BOOLEAN :
          Domain_Process(dir, fault, logOutcome, archFails)
    \/ \E raises \in {"none", "cursor_close", "commit"} : Main_Exit(raises)

Spec == Init /\ [][Next]_vars

----------------------------------------------------------------------------
(* The numeric coercion on its own: a row of one cell *)

CoerceAlphabet == {"4", "2", "0", "-", ".", "sup2", "ar3"}

RECURSIVE StringsUpTo(_)
StringsUpTo(n) ==
    IF n = 0 THEN { << >> }
    ELSE LET P == StringsUpTo(n - 1)
         IN  P \cup { Append(s, c) : s \in P, c \in CoerceAlphabet }

\* The rows: no numeric column at all, or one numeric column holding a
\* str or None
CoerceRows ==
    {NoRow}
    \cup { [c \in {col} |-> cell] :
             col \in NumericCols,
             cell \in {NoneCell} \cup { Str(s) : s \in StringsUpTo(MaxLen) } }

InitCoerce ==
    /\ exports = {}
    /\ archive = {}
    /\ committed = EmptyDb
    /\ db = EmptyDb
    /\ txAborted = FALSE
    /\ conn = "none"
    /\ nextSiteId = 1
    /\ nextCrawlId = 1
    /\ pc = "idle"
    /\ config = [base_export_path |-> "exports",
                 archive_processed_files |-> "absent"]
    /\ dateQueue = << >>
    /\ curDate = << >>
    /\ domQueue = {}
    /\ runs = 0
    /\ faults = 0
    /\ visits = << >>
    /\ session = NewSession
    /\ exitCode = None
    /\ coerceIn \in CoerceRows
    /\ coerceOut = NotCoerced

\* page_data = (...) for the row
CoerceRow ==
    /\ ~coerceOut.done
    /\ LET p == page_data(1, coerceIn)
       IN  coerceOut' = [done |-> TRUE, raised |-> p.raised, page |-> p.page]
    /\ UNCHANGED << exports, archive, committed, db, txAborted, conn,
                    nextSiteId, nextCrawlId, pc, config, dateQueue,
                    curDate, domQueue, runs, faults, visits, session,
                    exitCode, coerceIn >>

NextCoerce == CoerceRow

SpecCoerce == InitCoerce /\ [][NextCoerce]_vars

----------------------------------------------------------------------------
(* Properties *)

Last(q) == q[Len(q)]
Domains(d) == { r.domain : r \in d.sites }

\* C1: idempotency of the registry within one session.  Of two calls of
\* get_or_create_site that return in one session for the same domain, both
\* return the same site_id, the second performs no INSERT, and the first
\* performs one exactly when the session began without a Site of that
\* domain: one INSERT in all.  Likewise get_or_create_crawl for the same
\* (site_id, crawl_date).
C1_RegistryIdempotent ==
    pc = "walk" =>
      \A i, j \in DOMAIN visits :
        /\ ( /\ i < j
             /\ visits[i].domain = visits[j].domain
             /\ visits[i].site_id # None /\ visits[j].site_id # None )
           => /\ visits[i].site_id = visits[j].site_id
              /\ ~visits[j].site_inserted
              /\ (\A k \in 1..(i - 1) :
                     visits[k].domain = visits[i].domain
                       => visits[k].site_id = None)
                 => (visits[i].site_inserted
                       <=> visits[i].domain \notin Domains(committed))
        /\ ( /\ i < j
             /\ visits[i].site_id = visits[j].site_id
             /\ visits[i].crawl_date = visits[j].crawl_date
             /\ visits[i].crawl_id # None /\ visits[j].crawl_id # None )
           => /\ visits[i].crawl_id = visits[j].crawl_id
              /\ ~visits[j].crawl_inserted
              /\ (\A k \in 1..(i - 1) :
                     ( visits[k].site_id = visits[i].site_id
                       /\ visits[k].crawl_date = visits[i].crawl_date )
                       => visits[k].crawl_id = None)
                 => (visits[i].crawl_inserted
                       <=> ~\E c \in committed.crawls :
                              /\ c.site_id = visits[i].site_id
                              /\ c.crawl_date = visits[i].crawl_date)

\* Two calls for one domain and one crawl date in a session that began
\* without them: the first inserted the Site and the Crawl
C1_Witness ==
    /\ pc = "walk"
    /\ Len(visits) = 2
    /\ visits[1].domain = visits[2].domain
    /\ visits[1].crawl_date = visits[2].crawl_date
    /\ visits[1].site_inserted /\ visits[1].crawl_inserted
    /\ visits[2].site_id = visits[1].site_id
    /\ visits[2].crawl_id = visits[1].crawl_id

AtMostOneSitePerDomain(d) ==
    \A x, y \in d.sites : x.domain = y.domain => x = y

AtMostOneCrawlPerSiteDate(d) ==
    \A x, y \in d.crawls :
        (x.site_id = y.site_id /\ x.crawl_date = y.crawl_date) => x = y

\* C2: in every database state, of the open transaction and as committed,
\* there is at most one Site per domain and at most one Crawl per
\* (site_id, crawl_date).
C2_UniqueSitesAndCrawls ==
    /\ AtMostOneSitePerDomain(db) /\ AtMostOneSitePerDomain(committed)
    /\ AtMostOneCrawlPerSiteDate(db) /\ AtMostOneCrawlPerSiteDate(committed)

\* A second run over a tree the first run loaded and committed, with the
\* domain under two dates
C2_Witness ==
    /\ runs = 2 /\ pc = "idle" /\ exitCode = 0
    /\ Len(visits) = 2
    /\ visits[1].domain = visits[2].domain
    /\ visits[1].crawl_date # visits[2].crawl_date
    /\ ~visits[1].site_inserted /\ ~visits[1].crawl_inserted
    /\ ~visits[2].crawl_inserted
    /\ Cardinality(committed.sites) = 1
    /\ Cardinality(committed.crawls) = 2

\* The raw value of a numeric column consists of decimal digits only
AllDecimal(row, col) ==
    /\ col \in DOMAIN row
    /\ ~row[col].none
    /\ Len(row[col].s) > 0
    /\ \A i \in 1..Len(row[col].s) : IsDecimalChar(row[col].s[i])

\* C3: for each numeric column of a row the stored value is the integer
\* value of the raw string if and only if the raw string consists entirely
\* of decimal digits, it is null for every other raw value (empty,
\* negative, fractional, non-numeric, missing), and the coercion never
\* raises.
C3_NumericCoercion ==
    coerceOut.done =>
      /\ ~coerceOut.raised
      /\ \A col \in NumericCols :
            coerceOut.page[FieldOf(col)] =
              IF AllDecimal(coerceIn, col) THEN IntValue(coerceIn[col].s)
              ELSE None

\* C4: the count process_internal_all_csv returns is the number of data
\* rows of the file, whatever number of them the insert stored, and the
\* total_pages that update_crawl_summary stamps is that count.
C4_CountIsRowsParsed ==
    /\ \A i \in DOMAIN visits :
          visits[i].count # None
            => visits[i].count = Len(CsvRows(visits[i].csv))
    /\ (pc = "walk" /\ visits # << >> /\ Last(visits).summary)
         => \E c \in db.crawls :
               /\ c.crawl_id = Last(visits).crawl_id
               /\ c.total_pages = Len(CsvRows(Last(visits).csv))
               /\ c.crawl_completed_at # None

\* The second load of a file for its crawl: the rows are counted, none is
\* stored, and the count is stamped
C4_Witness ==
    /\ runs = 2 /\ pc = "walk" /\ visits # << >>
    /\ Last(visits).summary
    /\ Last(visits).count = 2
    /\ Last(visits).stored = 0

UniquePages(d) ==
    \A x, y \in d.pages : ConflictKey(x) = ConflictKey(y) => x = y

\* C5: the pages table holds at most one row per (crawl_id, url), and no
\* step of a session changes or removes a row the transaction holds (a
\* load skips the rows that exist); nor does a commit or a rollback
\* change a committed row.
C5_DuplicateSafe ==
    [][ /\ UniquePages(db') /\ UniquePages(committed')
        /\ (pc = "walk" /\ pc' = "walk") => db.pages \subseteq db'.pages
        /\ committed.pages \subseteq committed'.pages ]_vars

\* A load that met rows of its crawl: fewer rows stored than counted
C5_Witness ==
    /\ pc = "walk" /\ visits # << >>
    /\ Last(visits).submitted
    /\ Last(visits).count # None
    /\ Last(visits).stored < Last(visits).count
    /\ \E p \in db.pages : p.crawl_id = Last(visits).crawl_id

\* The events the open transaction has appended for a domain directory
SessionEvents(dir, level) ==
    { k \in (Len(committed.etl_logs) + 1)..Len(db.etl_logs) :
        /\ db.etl_logs[k].log_level = level
        /\ db.etl_logs[k].file_path.date = dir.date
        /\ db.etl_logs[k].file_path.domain = dir.domain }

VisitDir(v) == [date |-> v.date, domain |-> v.domain]

\* A run that ends normally has passed every domain directory of every
\* date directory (those it archived, and those still in the tree)
WalkIsComplete ==
    (pc = "idle" /\ exitCode = 0)
      => \A d \in exports :
            d.date \in date_dirs
              => \E i \in DOMAIN visits : VisitDir(visits[i]) = VisitDir(d)

\* C6, as claimed: every domain directory without a matching file gets
\* exactly one WARNING event and no ERROR event, no page insert, no summary
\* update and no archive move, and the run goes on.
C6_MissingFileOneWarning ==
    /\ WalkIsComplete
    /\ \A i \in DOMAIN visits :
          visits[i].csv = NoCsv
            => /\ visits[i].outcome = "no_csv"
               /\ visits[i].log_level = "WARNING" /\ visits[i].logged
               /\ ~visits[i].submitted /\ ~visits[i].summary
               /\ visits[i].archive = "none"
               /\ pc = "walk"
                    => /\ Cardinality(SessionEvents(VisitDir(visits[i]),
                                                    "WARNING")) = 1
                       /\ SessionEvents(VisitDir(visits[i]), "ERROR") = {}

\* C6, amended: a pass over a domain directory without a matching file
\* inserts no page, updates no crawl summary and moves nothing to the
\* archive, whatever else happens in it.  When its site and crawl
\* get-or-create calls both return it makes one WARNING append and no ERROR
\* append; when one of them raises it makes one ERROR append and no WARNING
\* append.  The appended event is stored exactly when its INSERT succeeds.
\* The loop continues: the directory leaves the queue, every remaining
\* directory is passed before the run ends normally, and a later pass over
\* a readable file in which nothing fails is loaded and logged, unless the
\* server rejected a statement before it: then the transaction is failed,
\* every later pass ends in an ERROR that is not stored, and the run
\* commits nothing.
C6_MissingFileWarningAttempted ==
    [][ /\ WalkIsComplete'
        /\ (pc = "walk" /\ pc' = "walk" /\ Len(visits') = Len(visits) + 1)
             => LET v == Last(visits')
                    d == [date |-> v.date, domain |-> v.domain, csv |-> v.csv]
                IN  /\ v.csv = NoCsv
                         => /\ ~v.submitted /\ ~v.summary
                            /\ v.archive = "none" /\ v.stored = 0
                            /\ db'.pages = db.pages
                            /\ \A c \in db.crawls : c \in db'.crawls
                            /\ exports' = exports /\ archive' = archive
                            /\ IF v.crawl_id # None
                               THEN /\ v.outcome = "no_csv"
                                    /\ v.log_level = "WARNING"
                               ELSE /\ v.outcome = "error"
                                    /\ v.log_level = "ERROR"
                            /\ Len(db'.etl_logs)
                                 = Len(db.etl_logs) + B2N(v.logged)
                            /\ v.logged
                                 => /\ Last(db'.etl_logs).log_level
                                         = v.log_level
                                    /\ Last(db'.etl_logs).file_path
                                         = FilePath(d, NoCsv)
                                    /\ ~txAborted'
                            /\ domQueue' = domQueue \ {d}
                            /\ dateQueue' = dateQueue
                    /\ (\E i \in DOMAIN visits : visits[i].csv = NoCsv)
                         => /\ txAborted
                                 => /\ v.outcome = "error" /\ ~v.logged
                                    /\ txAborted'
                            /\ ( /\ ~txAborted /\ faults' = faults
                                 /\ v.csv \notin {NoCsv, 3} )
                                 => v.outcome = "ok" /\ v.logged
        /\ ( /\ pc = "walk" /\ pc' = "idle" /\ txAborted
             /\ \E i \in DOMAIN visits : visits[i].csv = NoCsv )
             => committed' = committed ]_vars

\* A directory without a file was passed and warned about, and its sibling
\* was loaded after it
C6_Witness ==
    /\ pc = "walk" /\ Len(visits) = 2
    /\ visits[1].csv = NoCsv /\ visits[1].logged
    /\ visits[1].date = visits[2].date
    /\ visits[2].outcome = "ok" /\ visits[2].stored > 0
    /\ Cardinality(SessionEvents(VisitDir(visits[1]), "WARNING")) = 1

\* The rows of a pass are in the database d
Persisted(v, d) ==
    /\ \E r \in d.sites : r.site_id = v.site_id /\ r.domain = v.domain
    /\ \E c \in d.crawls :
          /\ c.crawl_id = v.crawl_id /\ c.site_id = v.site_id
          /\ c.crawl_date = v.crawl_date
    /\ v.outcome = "ok"
         => \A k \in 1..Len(CsvRows(v.csv)) :
               \E q \in d.pages :
                  /\ q.crawl_id = v.crawl_id
                  /\ q.url = CsvRows(v.csv)[k]["Address"].s

\* C7: a domain that fails is caught at the boundary of the loop body with
\* an ERROR event attempted, and at the final commit the Site, Crawl and
\* Page rows of every domain that did not fail (no statement of its pass
\* raised, its log append included) are persisted.
C7_PerDomainIsolation ==
    /\ \A i \in DOMAIN visits :
          visits[i].outcome = "error" => visits[i].log_level = "ERROR"
    /\ (pc = "idle" /\ exitCode = 0 /\ session.commits = 1)
         => \A i \in DOMAIN visits :
               (visits[i].outcome \in {"ok", "no_csv"} /\ visits[i].logged)
                 => Persisted(visits[i], committed)

\* C8: when an exception escapes the loop body's boundary (the run ends
\* before the walk is complete) nothing is committed: the database read
\* afresh is the database as it was before the run, without any Site,
\* Crawl, Page or EtlLogEvent row the run wrote.
C8_RollbackUndoesTheRun ==
    [][ (pc = "walk" /\ pc' = "idle" /\ dateQueue # << >>)
          => /\ session'.commits = 0
             /\ committed' = committed
             /\ db' = committed ]_vars

\* Domain A was loaded, then the listing of a date directory raised: the
\* run is over, rolled back, and A's rows are in no table
C8_Witness ==
    /\ pc = "idle" /\ exitCode = 1 /\ runs = 1
    /\ session.rollbacks = 1 /\ session.commits = 0
    /\ \E i \in DOMAIN visits :
          visits[i].outcome = "ok" /\ visits[i].stored > 0 /\ visits[i].logged
    /\ committed = EmptyDb

\* C9: one connection per run; no commit or rollback during the walk; a
\* walk that completes commits once and does not roll back; an exception
\* leaving the with block rolls back and does not commit; and on every
\* exit path, a failure inside cursor close, commit or rollback included,
\* the connection ends up closed.
C9_SessionLifecycle ==
    /\ session.connects <= 1
    /\ pc = "walk"
         => /\ session.connects = 1 /\ conn = "open"
            /\ session.commits = 0 /\ session.rollbacks = 0
    /\ (pc = "idle" /\ session.connects = 1)
         => /\ session.commits + session.rollbacks <= 1
            /\ exitCode = 0 => (session.commits = 1 /\ session.rollbacks = 0)
            /\ conn = "closed"

\* C10: a run whose configuration cannot be loaded, whose credentials are
\* not resolved or whose export root is missing exits nonzero with no pass
\* of the loop body, no change of the database or of the trees; without
\* configuration or credentials no connection is opened.
C10_FatalPreconditions ==
    [][ ( /\ runs' = runs + 1
          /\ \/ session'.pre \in {"no_config", "no_credentials"}
             \/ config.base_export_path = "missing" )
          => /\ pc' = "idle"
             /\ exitCode' # None /\ exitCode' # 0
             /\ visits' = << >>
             /\ committed' = committed
             /\ exports' = exports /\ archive' = archive
             /\ session'.commits = 0
             /\ session'.pre \in {"no_config", "no_credentials"}
                  => (session'.connects = 0 /\ conn' = "none") ]_vars

\* A second run without credentials, after a run that loaded and committed
C10_Witness ==
    /\ runs = 2 /\ pc = "idle"
    /\ session.pre = "no_credentials" /\ exitCode = 1
    /\ committed.pages # {}
    /\ visits = << >>

\* C11: a failure of the append of an event is swallowed and changes
\* nothing of what follows: the archive step still runs for the domain that
\* was loaded, the domains after it are processed as they would have been
\* (none fails but on its own file), and the run commits the rows of every
\* domain that was processed.  (faults = 1: the failed append is the only
\* failure of the behaviour.)
C11_LoggingNeverAlters ==
    /\ \A i \in DOMAIN visits :
          (visits[i].outcome = "ok" /\ ~visits[i].logged
             /\ ArchiveEnabled(config))
            => visits[i].archive # "none"
    /\ \A i, j \in DOMAIN visits :
          ( /\ i < j /\ faults = 1
            /\ visits[i].outcome \in {"ok", "no_csv"} /\ ~visits[i].logged
            /\ visits[j].csv # 3 )
            => visits[j].outcome # "error"
    /\ ( /\ pc = "idle" /\ exitCode = 0 /\ faults = 1
         /\ \E i \in DOMAIN visits :
               visits[i].outcome \in {"ok", "no_csv"} /\ ~visits[i].logged )
         => \A i \in DOMAIN visits :
               visits[i].outcome \in {"ok", "no_csv"}
                 => Persisted(visits[i], committed)

\* C12: the archive move is made only when the configuration enables it
\* and only in a pass whose load, summary update and INFO append have been
\* made; the trees change by that move and by nothing else; a move that
\* fails leaves both trees and the rows of the transaction as they are,
\* appends no ERROR event, does not fail the transaction, and the walk goes
\* on with the remaining directories.
C12_ArchiveGatedNonFatal ==
    [][ (pc = "walk" /\ pc' = "walk" /\ Len(visits') = Len(visits) + 1)
          => LET v == Last(visits')
                 d == [date |-> v.date, domain |-> v.domain, csv |-> v.csv]
             IN  /\ v.archive # "none"
                      => /\ ArchiveEnabled(config)
                         /\ v.outcome = "ok" /\ v.summary
                         /\ v.log_level = "INFO"
                 /\ v.archive = "moved"
                      => /\ d \in exports
                         /\ exports' = exports \ {d}
                         /\ archive' = archive \cup {d}
                 /\ v.archive # "moved"
                      => (exports' = exports /\ archive' = archive)
                 /\ v.archive = "failed"
                      => /\ \E c \in db'.crawls :
                               /\ c.crawl_id = v.crawl_id
                               /\ c.total_pages = v.count
                               /\ c.crawl_completed_at # None
                         /\ db.pages \subseteq db'.pages
                         /\ Len(db'.etl_logs) = Len(db.etl_logs) + B2N(v.logged)
                         /\ v.logged => /\ Last(db'.etl_logs).log_level = "INFO"
                                        /\ ~txAborted'
                         /\ session' = session
                 /\ domQueue' = domQueue \ {d}
                 /\ dateQueue' = dateQueue ]_vars

\* The move of the first domain failed, the second domain was loaded and
\* archived after it, and the run committed the rows of both
C12_Witness ==
    /\ pc = "idle" /\ exitCode = 0 /\ Len(visits) = 2
    /\ visits[1].archive = "failed" /\ visits[1].logged
    /\ visits[2].outcome = "ok" /\ visits[2].archive = "moved"
    /\ Persisted(visits[1], committed) /\ Persisted(visits[2], committed)
    /\ \E d \in exports : VisitDir(visits[1]) = VisitDir(d)
    /\ \E d \in archive : VisitDir(visits[2]) = VisitDir(d)

\* An entry of the export root the listing keeps: a directory whose name
\* has 10 characters
Listed(name) ==
    \E e \in RootEntries : e.is_dir /\ Len(e.name) = 10 /\ e.name = name

\* C13: an entry of the export root that is not a directory or whose name
\* is not 10 characters long is skipped: no domain directory under it is
\* passed or archived, and no Site, Crawl, Page or EtlLogEvent row is
\* written on its behalf.
C13_LengthFilter ==
    /\ \A i \in DOMAIN visits : Listed(visits[i].date)
    /\ \A d \in archive : Listed(d.date)
    /\ \A c \in db.crawls \cup committed.crawls :
          \E e \in RootEntries :
             e.is_dir /\ Len(e.name) = 10 /\ c.crawl_date = replace(e.name)
    /\ \A k \in DOMAIN db.etl_logs : Listed(db.etl_logs[k].file_path.date)
    /\ (\A d \in exports \cup archive : ~Listed(d.date))
         => (db = EmptyDb /\ committed = EmptyDb)

\* A run over a tree with a domain directory under `notes` and one under a
\* date directory has ended: one pass, and the directory under `notes` is
\* where it was
C13_Witness ==
    /\ pc = "idle" /\ exitCode = 0 /\ runs = 1
    /\ \E d \in exports : d.date = N_notes
    /\ Len(visits) = 1 /\ visits[1].outcome = "ok"
    /\ committed.pages # {}
    /\ \A c \in committed.crawls : c.crawl_id = visits[1].crawl_id

\* The fixed-width date token YYYY_MM_DD
IsDateToken(name) ==
    /\ Len(name) = 10
    /\ name[5] = "_" /\ name[8] = "_"
    /\ \A i \in {1, 2, 3, 4, 6, 7, 9, 10} : name[i] \in AsciiDigits

\* C14: only the directories of the export root whose name is a date
\* token YYYY_MM_DD are processed, a 10-character name that is not one is
\* ignored, and the crawl_date of every Crawl is the hyphen form of a date
\* token.
C14_DateTokenMatching ==
    /\ \A i \in DOMAIN visits : IsDateToken(visits[i].date)
    /\ \A c \in db.crawls \cup committed.crawls :
          \E e \in RootEntries :
             IsDateToken(e.name) /\ c.crawl_date = replace(e.name)

\* a <= b for two str
StrLeq(a, b) == a = b \/ StrLess(a, b)

\* The events the open transaction has appended
SessionLog == (Len(committed.etl_logs) + 1)..Len(db.etl_logs)

\* The Crawl rows the open transaction has created
SessionCrawls ==
    { c \in db.crawls : \A o \in committed.crawls : o.crawl_id # c.crawl_id }

\* C15: the date directories are processed in ascending order of their
\* names and each is finished before the next is started: the passes of a
\* run, the events it appends and the Crawl rows it creates are in the
\* order of the dates, and when a date directory is being processed every
\* domain directory of every earlier date directory has been passed.
C15_TraversalOrder ==
    /\ \A i, j \in DOMAIN visits :
          i < j => StrLeq(visits[i].date, visits[j].date)
    /\ pc = "walk"
         => /\ \A k, l \in SessionLog :
                  k < l => StrLeq(db.etl_logs[k].file_path.date,
                                  db.etl_logs[l].file_path.date)
            /\ \A x, y \in SessionCrawls :
                  x.crawl_started_at < y.crawl_started_at
                    => StrLeq(x.crawl_date, y.crawl_date)
            /\ \A d \in exports :
                  (d.date \in date_dirs /\ StrLess(d.date, curDate))
                    => \E i \in DOMAIN visits :
                          VisitDir(visits[i]) = VisitDir(d)

\* Two domain directories under two date directories have been loaded
\* and logged, the earlier date first
C15_Witness ==
    /\ pc = "walk" /\ Len(visits) = 2
    /\ StrLess(visits[1].date, visits[2].date)
    /\ visits[1].outcome = "ok" /\ visits[1].logged
    /\ visits[2].outcome = "ok" /\ visits[2].logged
    /\ visits[1].crawl_inserted /\ visits[2].crawl_inserted

\* C16: total_pages and crawl_completed_at are written only in a pass
\* whose load returned (never without a file, never after a failed parse
\* or insert), a run passes a domain directory at most once, and a Crawl
\* whose two fields are set keeps them as they are in every later pass of
\* this and of every later run.
C16_SummaryStampedOnce ==
    [][ /\ \A i \in DOMAIN visits' :
              visits'[i].summary
                => /\ visits'[i].csv # NoCsv
                   /\ visits'[i].count # None
                   /\ visits'[i].outcome = "ok"
        /\ \A i, j \in DOMAIN visits' :
              i < j => VisitDir(visits'[i]) # VisitDir(visits'[j])
        /\ \A c \in db'.crawls :
              c.total_pages # None
                => \/ c \in committed'.crawls
                   \/ \E i \in DOMAIN visits' :
                         visits'[i].summary /\ visits'[i].crawl_id = c.crawl_id
        /\ (pc = "walk" /\ pc' = "walk")
              => \A c \in db.crawls :
                    c.crawl_completed_at # None => c \in db'.crawls ]_vars

\* The export tree as it was before the first run
Tree == exports \cup archive

\* The urls of the data rows of a file
Urls(csv) == { CsvRows(csv)[k]["Address"].s : k \in 1..Len(CsvRows(csv)) }

\* One run without a failure has ended over an empty database and a tree
\* of one date directory whose domain directories each hold a file of
\* rows with distinct urls
SuccessPath ==
    /\ runs = 1 /\ pc = "idle" /\ exitCode = 0 /\ faults = 0
    /\ Tree # {}
    /\ \A d, e \in Tree :
          /\ d.date \in date_dirs /\ d.date = e.date
          /\ d.csv # NoCsv
          /\ Cardinality(Urls(d.csv)) = Len(CsvRows(d.csv))

\* C17: after one run that completes normally over an empty database and
\* one date directory whose domain directories each hold a CSV of k rows
\* with distinct urls, there is exactly one Site per domain, exactly one
\* Crawl per domain with the hyphen form of the directory name as its
\* crawl_date, total_pages = k and crawl_completed_at set, exactly k Page
\* rows of that crawl, exactly one INFO event per domain, and with
\* archiving enabled each domain directory is in the archive and no longer
\* in the export tree.
C17_EndToEnd ==
    SuccessPath =>
      /\ Cardinality(committed.sites) = Cardinality(Tree)
      /\ Cardinality(committed.crawls) = Cardinality(Tree)
      /\ Len(committed.etl_logs) = Cardinality(Tree)
      /\ \A d \in Tree :
            /\ \E st \in committed.sites, c \in committed.crawls :
                  /\ st.domain = d.domain
                  /\ c.site_id = st.site_id
                  /\ c.crawl_date = replace(d.date)
                  /\ c.total_pages = Len(CsvRows(d.csv))
                  /\ c.crawl_completed_at # None
                  /\ { p.url : p \in { q \in committed.pages :
                                          q.crawl_id = c.crawl_id } }
                        = Urls(d.csv)
                  /\ Cardinality({ q \in committed.pages :
                                     q.crawl_id = c.crawl_id })
                        = Len(CsvRows(d.csv))
                  /\ Cardinality({ k \in DOMAIN committed.etl_logs :
                        /\ committed.etl_logs[k].log_level = "INFO"
                        /\ committed.etl_logs[k].site_id = st.site_id
                        /\ committed.etl_logs[k].crawl_id = c.crawl_id }) = 1
            /\ IF ArchiveEnabled(config)
               THEN d \in archive /\ d \notin exports
               ELSE d \in exports /\ d \notin archive

\* C18: a file is loaded whole or not at all: its rows are submitted only
\* when every row was read, a file whose read or parse fails stores no row,
\* and a file whose insert fails in a later round of the batch has no row
\* of an earlier round in the transaction that the run commits.
C18_PerFileAtomic ==
    /\ \A i \in DOMAIN visits :
          visits[i].parsed # None
            => /\ visits[i].submitted
                    => visits[i].parsed = Len(CsvRows(visits[i].csv))
               /\ ~visits[i].submitted => visits[i].stored = 0
    /\ (pc = "idle" /\ exitCode = 0 /\ runs = 1 /\ session.commits = 1)
         => \A i \in DOMAIN visits :
               ( /\ visits[i].outcome = "error" /\ visits[i].submitted
                 /\ visits[i].count = None
                 /\ \A j \in DOMAIN visits \ {i} :
                       visits[j].crawl_id # visits[i].crawl_id )
                 => ~\E q \in committed.pages :
                        q.crawl_id = visits[i].crawl_id

\* C19: when a run has ended, every domain directory in the archive has
\* its Site, its summarized Crawl and the Page rows of its file in the
\* committed database.
C19_ArchivedIsPersisted ==
    pc = "idle"
      => \A d \in archive :
            \E st \in committed.sites, c \in committed.crawls :
               /\ st.domain = d.domain
               /\ c.site_id = st.site_id
               /\ c.crawl_date = replace(d.date)
               /\ c.total_pages # None /\ c.crawl_completed_at # None
               /\ \A u \in Urls(d.csv) :
                     \E q \in committed.pages :
                        q.crawl_id = c.crawl_id /\ q.url = u

\* C20: in every committed database every Crawl with status 'completed'
\* has total_pages and crawl_completed_at set: no Crawl is persisted for a
\* domain directory without a file or with a failed ingestion.
C20_CompletedIsSummarized ==
    \A c \in committed.crawls :
       c.crawl_status = "completed"
         => (c.total_pages # None /\ c.crawl_completed_at # None)

====
